---- MODULE Spec2Model ----
(***************************************************************************)
(* A model of flair's plugin dispatcher (flair/trainers/plugins/base.py):  *)
(* one Pluggable with its hook registry, event queue and reentrancy flag,  *)
(* the HookHandles it issues, and the BasePlugins attached to it.  A       *)
(* second Pluggable, on which no event is dispatched, is there for plugins *)
(* to be attached to instead.                                              *)
(*                                                                         *)
(* The program is single threaded.  A call that runs callbacks (dispatch,  *)
(* attach_to) is modelled step by step with an explicit call stack, so     *)
(* that what a hook does while it runs (a nested dispatch, a raise) acts   *)
(* on the state the interrupted call left behind.  While the stack is not  *)
(* empty only the running call can take a step.                            *)
(*                                                                         *)
(* Optional[T] values are sets with at most one element: None is {}.       *)
(* A dict of return values is a set of <<key, value>> pairs.  The args and *)
(* kwargs of an event are passed through untouched by the dispatcher and   *)
(* are left out of the queue records.                                      *)
(***************************************************************************)
EXTENDS Integers, Sequences, FiniteSets, TLC

VARIABLES
    valid_events,             \* Pluggable.valid_events: None or Some(set of names)
    hook_handles,             \* Pluggable._hook_handles: event -> ordered ids
    handles,                  \* every HookHandle ever created: id -> [events, func]
    hook_handle_id_counter,   \* the next value of Pluggable._hook_handle_id_counter
    event_queue,              \* Pluggable._event_queue
    processing_events,        \* Pluggable._processing_events
    results,                  \* the events_return_value dict of each dispatch call
    stack,                    \* the call stack of the running top-level call
    enq,                      \* history: the event of every record ever enqueued
    delivered,                \* history: hook invocations since the last external dispatch
    removed,                  \* history: the handles remove_hook has returned normally for
    plugins,                  \* Pluggable._plugins: the plugin objects appended, in order
    insts,                    \* every BasePlugin object created: [type, pluggable, hook_handles]
    other,                    \* the second Pluggable: its valid_events, registry, counter, plugins
    attach_log,               \* history: what the last external attach_to has done so far
    last                      \* the most recent external call and how it ended

vars == <<valid_events, hook_handles, handles, hook_handle_id_counter,
          event_queue, processing_events, results, stack, enq, delivered,
          removed, plugins, insts, other, attach_log, last>>

----------------------------------------------------------------------------
(* Bounds of the model *)

MaxHandles == 3        \* handles issued, where hooks dispatch and raise
MaxRecords == 3        \* dispatch calls, external and nested
MaxRegistered == 2     \* handles issued, where hooks are on several events
MaxDispatched == 2     \* dispatch calls there
MaxPlugins == 2        \* plugin objects constructed by the caller
MaxPluginHandles == 3  \* handles issued before the caller attaches no more
MaxObjects == 1        \* plugin objects the caller constructs before a Pluggable
MaxArgs == 2           \* plugins given to the constructor of a Pluggable
MaxMutations == 3      \* handles issued, where hooks change the registry
MaxDeliveries == 2     \* dispatch calls there
MaxRepeated == 2       \* handles issued, where hooks name an event repeatedly

----------------------------------------------------------------------------
(* Values *)

None == {}
Some(x) == {x}
TheValue(opt) == CHOOSE x \in opt : TRUE

Range(s) == {s[i] : i \in 1..Len(s)}

Events == {"A", "B", "C"}

\* The vocabulary of a Pluggable subclass that restricts valid_events.
RestrictedEvents == {"A", "B"}

\* The callbacks hooks are made of, named by what their body does.
Funcs == {"noop", "raise", "ret_k1_1", "ret_k1_2", "ret_k2_2",
          "disp_A", "disp_B", "disp_C", "reg_A", "reg_B", "remove_self"}

\* The event a callback dispatches on its Pluggable before it returns, if any.
FuncDispatches(func) ==
    CASE func = "disp_A" -> Some("A")
      [] func = "disp_B" -> Some("B")
      [] func = "disp_C" -> Some("C")
      [] OTHER -> None

\* The event a callback registers a new hook for on its Pluggable, with
\* register_hook(noop, event), before it returns, if any.
FuncRegisters(func) ==
    CASE func = "reg_A" -> Some("A")
      [] func = "reg_B" -> Some("B")
      [] OTHER -> None

\* Whether the callback removes the handle it was registered under, with
\* handle.remove(), before it returns.
FuncRemoves(func) == func = "remove_self"

\* Whether the callback raises (TrainingInterrupt) instead of returning.
FuncRaises(func) == func = "raise"

\* What the callback returns: None, or Some(dict).
FuncReturns(func) ==
    CASE func = "ret_k1_1" -> Some({<<"k1", 1>>})
      [] func = "ret_k1_2" -> Some({<<"k1", 2>>})
      [] func = "ret_k2_2" -> Some({<<"k2", 2>>})
      [] OTHER -> None

\* dict.update: the entries of b replace those of a with the same key.
DictUpdate(a, b) == {p \in a : \A q \in b : q[1] # p[1]} \cup b

----------------------------------------------------------------------------
(* Pluggable: validation and the registry *)

\* Fault variant of validate_event: no name is ever rejected.
validate_event_accepts_all(events) == "ok"

\* validate_event(*events) of a Pluggable whose valid_events is valid: the
\* loop returns from inside its first iteration, so only events[0] is ever
\* compared with valid_events.
ValidateEvent(valid, events) ==
    IF events = <<>> THEN "ok"
    ELSE IF valid # None /\ events[1] \notin TheValue(valid)
         THEN "UnknownEvent"
         ELSE "ok"

\* self.validate_event(*events)
validate_event(events) == ValidateEvent(valid_events, events)

\* Fault variant of Advance: the counter stays where it is, and the next
\* handle is given the same id again.
AdvanceNever(counter) == counter

\* next(self._hook_handle_id_counter) returns the counter and moves it on by
\* one: the value the counter has after it.
Advance(counter) == counter + 1

\* for event in events: self._hook_handles[event][handle.id] = handle
\* (a key already in the dict keeps its place).
StoreHandle(hh, id, events) ==
    [e \in Events |->
        IF e \in Range(events) /\ id \notin Range(hh[e])
        THEN Append(hh[e], id) ELSE hh[e]]

\* del self._hook_handles[event][handle.id]
DelKey(bucket, id) == LET Keep(x) == x # id IN SelectSeq(bucket, Keep)

\* Fault variant of RemoveHandle: a missing key is skipped silently, as with
\* dict.pop(handle.id, None).
RemoveHandleQuiet(hh, id, events) ==
    [hh |-> [e \in Events |-> IF e \in Range(events) THEN DelKey(hh[e], id) ELSE hh[e]],
     result |-> "ok"]

\* for event in handle.events: del ...; a missing key raises KeyError and the
\* deletions already made stay.
RECURSIVE RemoveHandle(_, _, _)
RemoveHandle(hh, id, events) ==
    IF events = <<>> THEN [hh |-> hh, result |-> "ok"]
    ELSE IF id \notin Range(hh[Head(events)])
         THEN [hh |-> hh, result |-> "KeyError"]
         ELSE RemoveHandle([hh EXCEPT ![Head(events)] = DelKey(@, id)],
                           id, Tail(events))

\* The record of an external call: its arguments (ev, h), the id of the
\* record it enqueued (rv), how it ended (result), the registry, the plugin
\* list and valid_events before it (pre, pre_plugins, pre_valid) and, for
\* remove_hook, whether the handle had been removed before (again).
NoCall == [op |-> "none", ev |-> <<>>, h |-> -1, rv |-> 0, result |-> "ok",
           pre |-> [e \in Events |-> <<>>], pre_plugins |-> <<>>,
           pre_valid |-> None, again |-> FALSE]

Call(op, ev, h, rv, result) ==
    [op |-> op, ev |-> ev, h |-> h, rv |-> rv, result |-> result,
     pre |-> hook_handles, pre_plugins |-> plugins,
     pre_valid |-> valid_events, again |-> FALSE]

\* Pluggable.register_hook(func, *events), called from outside.
RegisterHook(func, events) ==
    /\ stack = <<>>
    /\ IF validate_event(events) # "ok"
       THEN /\ last' = Call("register_hook", events, -1, 0, "UnknownEvent")
            /\ UNCHANGED <<hook_handles, handles, hook_handle_id_counter>>
       ELSE LET id == hook_handle_id_counter IN
            /\ hook_handle_id_counter' = Advance(id)
            /\ handles' = [i \in 0..id |->
                             IF i = id THEN [events |-> events, func |-> func]
                             ELSE handles[i]]
            /\ hook_handles' = StoreHandle(hook_handles, id, events)
            /\ last' = Call("register_hook", events, id, 0, "ok")
    /\ UNCHANGED <<plugins, insts, other, attach_log, valid_events,
                   event_queue, processing_events, results,
                   stack, enq, delivered, removed>>

\* Pluggable.remove_hook(handle), called from outside with any handle that
\* register_hook has returned.
RemoveHook(id) ==
    /\ stack = <<>>
    /\ id \in DOMAIN handles
    /\ LET r == RemoveHandle(hook_handles, id, handles[id].events) IN
       /\ hook_handles' = r.hh
       /\ removed' = IF r.result = "ok" THEN removed \cup {id} ELSE removed
       /\ last' = [Call("remove_hook", handles[id].events, id, 0, r.result)
                      EXCEPT !.again = id \in removed]
    /\ UNCHANGED <<plugins, insts, other, attach_log, valid_events,
                   handles, hook_handle_id_counter, event_queue,
                   processing_events, results, stack, enq, delivered>>

----------------------------------------------------------------------------
(* Pluggable.dispatch *)

DispatchFrame(rv) ==
    [kind |-> "dispatch", pc |-> "while", rv |-> rv, event |-> "", crv |-> 0,
     it |-> 0, h |-> -1, plugin |-> 0, used |-> 0]

HookFrame(h) ==
    [kind |-> "hook", pc |-> "body", rv |-> 0, event |-> "", crv |-> 0,
     it |-> 0, h |-> h, plugin |-> 0, used |-> 0]

Top == stack[Len(stack)]
Pop(stk) == SubSeq(stk, 1, Len(stk) - 1)
SetTop(stk, f) == [stk EXCEPT ![Len(stk)] = f]

\* Fault variant of Put: the record is lost.
PutNothing(queue, record) == queue

\* self._event_queue.put(record)
Put(queue, record) == Append(queue, record)

\* Fault variant of OwnsLoop: every dispatch call runs the loop itself.
OwnsLoopAlways == TRUE

\* if not self._processing_events: this call becomes the owner of the loop.
OwnsLoop == ~processing_events

\* Fault variant of Propagate: the loop swallows the exception of a hook and
\* goes on with the next one.
PropagateCaught(stk) == Pop(stk)

\* dispatch has no try/except/finally: an exception raised in a hook leaves
\* through every frame up to the external caller.
Propagate(stk) == <<>>

\* HookHandle.__call__ calls self._func and returns nothing.
HookHandleCall(func) == None

\* An exception leaves the running call.
Raise(exc) ==
    /\ stack' = Propagate(stack)
    /\ last' = IF stack' = <<>> THEN [last EXCEPT !.result = exc] ELSE last

\* iter(bucket.values()): the iterator records the size the dict has when
\* the iteration begins.
DictIter(bucket) == Len(bucket)

\* next() of a dict iterator raises RuntimeError ("dictionary changed size
\* during iteration") when the dict no longer has the size recorded; the
\* comparison comes before the one that ends the iteration.
SizeChanged(bucket, used) == Len(bucket) # used

\* dispatch(event) called from outside: validate, enqueue, and either take
\* the loop or return at once.
Dispatch(event) ==
    /\ stack = <<>>
    /\ delivered' = <<>>
    /\ IF validate_event(<<event>>) # "ok"
       THEN /\ last' = Call("dispatch", <<event>>, -1, 0, "UnknownEvent")
            /\ UNCHANGED <<event_queue, processing_events, results, stack, enq>>
       ELSE LET rid == Len(enq) + 1 IN
            /\ enq' = Append(enq, event)
            /\ results' = Append(results, {})
            /\ event_queue' = Put(event_queue, [event |-> event, rv |-> rid])
            /\ IF OwnsLoop
               THEN /\ processing_events' = TRUE
                    /\ stack' = <<DispatchFrame(rid)>>
                    /\ last' = Call("dispatch", <<event>>, -1, rid, "running")
               ELSE /\ last' = Call("dispatch", <<event>>, -1, rid, "ok")
                    /\ UNCHANGED <<processing_events, stack>>
    /\ UNCHANGED <<plugins, insts, other, attach_log, valid_events,
                   hook_handles, handles, hook_handle_id_counter,
                   removed>>

\* while not self._event_queue.empty(): ... = self._event_queue.get()
\* and, once the queue is empty, self._processing_events = False; return.
LoopStep ==
    /\ stack # <<>>
    /\ Top.kind = "dispatch" /\ Top.pc = "while"
    /\ IF event_queue = <<>>
       THEN /\ processing_events' = FALSE
            /\ stack' = Pop(stack)
            /\ last' = IF stack' = <<>> THEN [last EXCEPT !.result = "ok"] ELSE last
            /\ UNCHANGED event_queue
       ELSE /\ event_queue' = Tail(event_queue)
            /\ stack' = SetTop(stack, [Top EXCEPT !.pc = "for",
                                                  !.event = Head(event_queue).event,
                                                  !.crv = Head(event_queue).rv,
                                                  !.it = 1,
                                                  !.used = DictIter(hook_handles[Head(event_queue).event])])
            /\ UNCHANGED <<processing_events, last>>
    /\ UNCHANGED <<plugins, insts, other, attach_log, valid_events,
                   hook_handles, handles, hook_handle_id_counter,
                   results, enq, delivered, removed>>

\* for hook in self._hook_handles[event].values(): returned = hook(...)
\* Each step asks the iterator of the bucket for its next value.  The bucket
\* is a dict: while its size is the one the iterator has recorded, a hook
\* has neither added nor deleted a key (a hook body makes at most one such
\* change), and the position it counts the keys in their order.
ForStep ==
    /\ stack # <<>>
    /\ Top.kind = "dispatch" /\ Top.pc = "for"
    /\ IF SizeChanged(hook_handles[Top.event], Top.used)
       THEN /\ Raise("RuntimeError")
            /\ UNCHANGED delivered
       ELSE IF Top.it > Len(hook_handles[Top.event])
       THEN /\ stack' = SetTop(stack, [Top EXCEPT !.pc = "while"])
            /\ UNCHANGED <<delivered, last>>
       ELSE LET h == hook_handles[Top.event][Top.it] IN
            /\ stack' = Append(SetTop(stack, [Top EXCEPT !.it = @ + 1]), HookFrame(h))
            /\ delivered' = Append(delivered, [rid |-> Top.crv, h |-> h])
            /\ UNCHANGED last
    /\ UNCHANGED <<plugins, insts, other, attach_log, valid_events,
                   hook_handles, handles, hook_handle_id_counter,
                   event_queue, processing_events, results, enq, removed>>

\* A hook whose body calls self.trainer.dispatch(event): the call validates,
\* enqueues and, the loop being owned by the call that invoked the hook,
\* returns at once.
HookDispatch ==
    /\ stack # <<>>
    /\ Top.kind = "hook" /\ Top.pc = "body"
    /\ FuncDispatches(handles[Top.h].func) # None
    /\ Len(enq) < MaxRecords
    /\ LET event == TheValue(FuncDispatches(handles[Top.h].func))
           rid == Len(enq) + 1
       IN IF validate_event(<<event>>) # "ok"
          THEN /\ Raise("UnknownEvent")
               /\ UNCHANGED <<event_queue, processing_events, results, enq>>
          ELSE /\ enq' = Append(enq, event)
               /\ results' = Append(results, {})
               /\ event_queue' = Put(event_queue, [event |-> event, rv |-> rid])
               /\ IF OwnsLoop
                  THEN /\ processing_events' = TRUE
                       /\ stack' = Append(SetTop(stack, [Top EXCEPT !.pc = "ret"]),
                                          DispatchFrame(rid))
                  ELSE /\ stack' = SetTop(stack, [Top EXCEPT !.pc = "ret"])
                       /\ UNCHANGED processing_events
               /\ UNCHANGED last
    /\ UNCHANGED <<plugins, insts, other, attach_log, valid_events,
                   hook_handles, handles, hook_handle_id_counter,
                   delivered, removed>>

\* A hook whose body raises TrainingInterrupt.
HookRaise ==
    /\ stack # <<>>
    /\ Top.kind = "hook" /\ Top.pc = "body"
    /\ FuncRaises(handles[Top.h].func)
    /\ Raise("TrainingInterrupt")
    /\ UNCHANGED <<plugins, insts, other, attach_log, valid_events,
                   hook_handles, handles, hook_handle_id_counter,
                   event_queue, processing_events, results, enq, delivered,
                   removed>>

\* A hook whose body calls self.pluggable.register_hook(noop, event): the
\* registry changes while the loop of dispatch is iterating over a bucket.
HookRegister ==
    /\ stack # <<>>
    /\ Top.kind = "hook" /\ Top.pc = "body"
    /\ FuncRegisters(handles[Top.h].func) # None
    /\ hook_handle_id_counter < MaxMutations
    /\ LET events == <<TheValue(FuncRegisters(handles[Top.h].func))>>
           id == hook_handle_id_counter
       IN IF validate_event(events) # "ok"
          THEN /\ Raise("UnknownEvent")
               /\ UNCHANGED <<hook_handles, handles, hook_handle_id_counter>>
          ELSE /\ hook_handle_id_counter' = Advance(id)
               /\ handles' = [i \in 0..id |->
                                IF i = id THEN [events |-> events, func |-> "noop"]
                                ELSE handles[i]]
               /\ hook_handles' = StoreHandle(hook_handles, id, events)
               /\ stack' = SetTop(stack, [Top EXCEPT !.pc = "ret"])
               /\ UNCHANGED last
    /\ UNCHANGED <<plugins, insts, other, attach_log, valid_events,
                   event_queue, processing_events, results, enq, delivered,
                   removed>>

\* A hook whose body calls handle.remove() on the handle it is registered
\* under.
HookRemove ==
    /\ stack # <<>>
    /\ Top.kind = "hook" /\ Top.pc = "body"
    /\ FuncRemoves(handles[Top.h].func)
    /\ LET r == RemoveHandle(hook_handles, Top.h, handles[Top.h].events) IN
       /\ hook_handles' = r.hh
       /\ IF r.result = "ok"
          THEN /\ removed' = removed \cup {Top.h}
               /\ stack' = SetTop(stack, [Top EXCEPT !.pc = "ret"])
               /\ UNCHANGED last
          ELSE /\ Raise(r.result)
               /\ UNCHANGED removed
    /\ UNCHANGED <<plugins, insts, other, attach_log, valid_events,
                   handles, hook_handle_id_counter, event_queue,
                   processing_events, results, enq, delivered>>

\* The hook returns to the loop:
\* if returned is not None: combined_return_values.update(returned)
HookReturn ==
    /\ stack # <<>>
    /\ Top.kind = "hook"
    /\ \/ Top.pc = "ret"
       \/ Top.pc = "body" /\ FuncDispatches(handles[Top.h].func) = None
                          /\ FuncRegisters(handles[Top.h].func) = None
                          /\ ~FuncRemoves(handles[Top.h].func)
                          /\ ~FuncRaises(handles[Top.h].func)
    /\ LET returned == HookHandleCall(handles[Top.h].func)
           caller == stack[Len(stack) - 1]
       IN /\ stack' = Pop(stack)
          /\ results' = IF returned # None
                        THEN [results EXCEPT ![caller.crv] = DictUpdate(@, TheValue(returned))]
                        ELSE results
    /\ UNCHANGED <<plugins, insts, other, attach_log, valid_events,
                   hook_handles, handles, hook_handle_id_counter,
                   event_queue, processing_events, enq, delivered, removed, last>>

----------------------------------------------------------------------------
(* BasePlugin: the plugin classes, attach_to and detach *)

\* The plugin classes of the model.  PluginA2 is a subclass of PluginA;
\* PluginB provides the event "C" and has a hook on it; PluginC depends on
\* PluginB and on PluginA, in that order; PluginD has a hook on "C" without
\* providing it, so that its attach_to fails where "C" is not a valid event;
\* PluginE depends on PluginD.
PluginTypes == {"PluginA", "PluginA2", "PluginB", "PluginC", "PluginD", "PluginE"}

\* Classes whose dependencies form a cycle: PluginX and PluginY depend on
\* each other and PluginS depends on itself.  PluginX2 is a subclass of
\* PluginX that overrides dependencies with ().
CyclicTypes == {"PluginX", "PluginY", "PluginS"}

\* The classes isinstance accepts an object of the type for.
Bases(type) ==
    CASE type = "PluginA2" -> {"PluginA2", "PluginA"}
      [] type = "PluginX2" -> {"PluginX2", "PluginX"}
      [] OTHER -> {type}

IsInstance(type, dep) == dep \in Bases(type)

\* BasePlugin.dependencies of each class.
Dependencies(type) ==
    CASE type = "PluginB" -> <<"PluginA">>
      [] type = "PluginC" -> <<"PluginB", "PluginA">>
      [] type = "PluginD" -> <<"PluginA">>
      [] type = "PluginE" -> <<"PluginD">>
      [] type = "PluginX" -> <<"PluginY">>
      [] type = "PluginY" -> <<"PluginX">>
      [] type = "PluginS" -> <<"PluginS">>
      [] OTHER -> <<>>

\* BasePlugin.provided_events of each class.
ProvidedEvents(type) ==
    CASE type = "PluginB" -> Some({"C"})
      [] OTHER -> None

\* The methods of each class marked as hooks, in the order of dir(self), with
\* the _plugin_hook_events of each.
MarkedHooks(type) ==
    CASE type = "PluginB" -> <<[func |-> "noop", events |-> <<"B">>],
                               [func |-> "noop", events |-> <<"C">>]>>
      [] type = "PluginC" -> <<[func |-> "noop", events |-> <<"A", "B">>]>>
      [] type = "PluginD" -> <<[func |-> "noop", events |-> <<"A">>],
                               [func |-> "noop", events |-> <<"C">>]>>
      [] type = "PluginE" -> <<[func |-> "noop", events |-> <<"B">>]>>
      [] OTHER -> <<[func |-> "noop", events |-> <<"A">>]>>

\* The two Pluggable objects a plugin can be attached to.
Pluggables == {"self", "other"}

\* The second Pluggable as constructed: Pluggable() of the base class, whose
\* valid_events is None.
NewPluggable ==
    [valid_events |-> None, hook_handles |-> [e \in Events |-> <<>>],
     handles |-> <<>>, hook_handle_id_counter |-> 0, plugins |-> <<>>]

\* The fields of the Pluggable p that attach_to and detach read and write.
Fields(p) ==
    IF p = "self"
    THEN [valid_events |-> valid_events, hook_handles |-> hook_handles,
          handles |-> handles, hook_handle_id_counter |-> hook_handle_id_counter,
          plugins |-> plugins]
    ELSE other

\* The fields of the Pluggable p become those of o; the other Pluggable
\* keeps its own.
Assign(p, o) ==
    IF p = "self"
    THEN /\ valid_events' = o.valid_events
         /\ hook_handles' = o.hook_handles
         /\ handles' = o.handles
         /\ hook_handle_id_counter' = o.hook_handle_id_counter
         /\ plugins' = o.plugins
         /\ UNCHANGED other
    ELSE /\ other' = o
         /\ UNCHANGED <<valid_events, hook_handles, handles,
                        hook_handle_id_counter, plugins>>

\* The fields of both Pluggables that attach_to and detach can write.
pluggables == <<valid_events, hook_handles, handles, hook_handle_id_counter,
                plugins, other>>

\* BasePlugin.__init__; registered is history: the handles register_hook has
\* returned to the object, each with the Pluggable that issued it.
NewPluginObject(type) ==
    [type |-> type, pluggable |-> None, hook_handles |-> <<>>, registered |-> {}]

\* The frame of Pluggable.__init__ while it attaches the plugins given to it.
InitFrame ==
    [kind |-> "__init__", pc |-> "for", rv |-> 0, event |-> "", crv |-> 0,
     it |-> 1, h |-> -1, plugin |-> 0, used |-> 0]

AttachFrame(i) ==
    [kind |-> "attach_to", pc |-> "deps", rv |-> 0, event |-> "", crv |-> 0,
     it |-> 1, h |-> -1, plugin |-> i, used |-> 0]

LogEntry(what, i, by, n) == [what |-> what, plugin |-> i, by |-> by, n |-> n]

\* The interpreter's recursion limit, in frames of attach_to.
RecursionLimit == 4

\* Fault variant of DepSatisfied: only an object of exactly the class counts.
DepSatisfiedExactType(plugs, dep) ==
    \E k \in 1..Len(plugs) : insts[plugs[k]].type = dep

\* Fault variant of DepSatisfied: no dependency is ever taken as satisfied.
DepSatisfiedNever(plugs, dep) == FALSE

\* Fault variant of DepSatisfied: every dependency is taken as satisfied.
DepSatisfiedAlways(plugs, dep) == TRUE

\* for plugin in pluggable.plugins: if isinstance(plugin, dep): ...
DepSatisfied(plugs, dep) ==
    \E k \in 1..Len(plugs) : IsInstance(insts[plugs[k]].type, dep)

\* Fault variant of ExtendValidEvents: valid_events is left as it is.
ExtendValidEventsNever(valid, provided) == valid

\* if self.provided_events is not None and pluggable.valid_events is not None:
\*     pluggable.valid_events = pluggable.valid_events | self.provided_events
ExtendValidEvents(valid, provided) ==
    IF provided # None /\ valid # None
    THEN Some(TheValue(valid) \cup TheValue(provided))
    ELSE valid

\* Fault variant of IsAttached: the assertions are not made.
IsAttachedNever(obj) == FALSE

\* What the assertions of attach_to exclude: self._pluggable is not None, or
\* self._hook_handles is not empty.
IsAttached(obj) == obj.pluggable # None \/ obj.hook_handles # <<>>

\* The caller constructs a plugin object.
NewPlugin(type) ==
    /\ stack = <<>>
    /\ insts' = Append(insts, NewPluginObject(type))
    /\ UNCHANGED <<pluggables, attach_log, event_queue, processing_events,
                   results, stack, enq, delivered, removed, last>>

\* plugin.attach_to(pluggable) called from outside: the two assertions, and
\* self._pluggable = pluggable.
AttachTo(i, p) ==
    /\ stack = <<>>
    /\ i \in 1..Len(insts)
    /\ attach_log' = <<>>
    /\ IF IsAttached(insts[i])
       THEN /\ last' = Call("attach_to", <<>>, i, 0, "AssertionError")
            /\ UNCHANGED <<insts, stack>>
       ELSE /\ insts' = [insts EXCEPT ![i].pluggable = Some(p)]
            /\ stack' = <<AttachFrame(i)>>
            /\ last' = Call("attach_to", <<>>, i, 0, "running")
    /\ UNCHANGED <<pluggables, event_queue, processing_events,
                   results, enq, delivered, removed>>

\* A plugin argument of Pluggable.__init__: a class, or an object the caller
\* has constructed.
ClassArg(type) == [isclass |-> TRUE, cls |-> type, obj |-> 0]
ObjectArg(i) == [isclass |-> FALSE, cls |-> "", obj |-> i]

\* Pluggable(plugins=args): the fields are initialised (the state of Init)
\* and the loop over the plugins begins.
Construct(args) ==
    /\ stack = <<>>
    /\ last = NoCall
    /\ attach_log' = <<>>
    /\ stack' = <<InitFrame>>
    /\ last' = Call("__init__", args, -1, 0, "running")
    /\ UNCHANGED <<pluggables, insts, event_queue, processing_events,
                   results, enq, delivered, removed>>

\* for plugin in plugins: if isclass(plugin): plugin = plugin()
\*     plugin.attach_to(self)
\* and, after the last one, __init__ returns.
ConstructStep ==
    /\ stack # <<>>
    /\ Top.kind = "__init__"
    /\ IF Top.it > Len(last.ev)
       THEN /\ stack' = Pop(stack)
            /\ last' = [last EXCEPT !.result = "ok"]
            /\ UNCHANGED insts
       ELSE LET arg == last.ev[Top.it]
                i == IF arg.isclass THEN Len(insts) + 1 ELSE arg.obj
                objs == IF arg.isclass
                        THEN Append(insts, NewPluginObject(arg.cls))
                        ELSE insts
            IN IF IsAttached(objs[i])
               THEN /\ Raise("AssertionError")
                    /\ insts' = objs
               ELSE /\ insts' = [objs EXCEPT ![i].pluggable = Some("self")]
                    /\ stack' = Append(SetTop(stack, [Top EXCEPT !.it = @ + 1]),
                                       AttachFrame(i))
                    /\ UNCHANGED last
    /\ UNCHANGED <<pluggables, attach_log, event_queue, processing_events,
                   results, enq, delivered, removed>>

\* The Pluggable the attach_to on top of the stack attaches its plugin to.
Target == TheValue(insts[Top.plugin].pluggable)

\* for dep in self.dependencies: scan pluggable.plugins and, if no object
\* satisfies dep, dep_plugin = dep(); dep_plugin.attach_to(pluggable).  The
\* call that would exceed the recursion limit raises RecursionError instead.
ResolveDependency ==
    /\ stack # <<>>
    /\ Top.kind = "attach_to" /\ Top.pc = "deps"
    /\ Top.it <= Len(Dependencies(insts[Top.plugin].type))
    /\ LET dep == Dependencies(insts[Top.plugin].type)[Top.it]
           j == Len(insts) + 1
       IN IF DepSatisfied(Fields(Target).plugins, dep)
          THEN /\ stack' = SetTop(stack, [Top EXCEPT !.it = @ + 1])
               /\ UNCHANGED <<insts, attach_log, last>>
          ELSE IF Len(stack) >= RecursionLimit
               THEN /\ Raise("RecursionError")
                    /\ UNCHANGED <<insts, attach_log>>
               ELSE /\ insts' = Append(insts, [NewPluginObject(dep) EXCEPT
                                                 !.pluggable = Some(Target)])
                    /\ stack' = Append(SetTop(stack, [Top EXCEPT !.it = @ + 1]),
                                       AttachFrame(j))
                    /\ attach_log' = Append(attach_log,
                                            LogEntry("create", j, Top.plugin, Top.it))
                    /\ UNCHANGED last
    /\ UNCHANGED <<pluggables, event_queue, processing_events,
                   results, enq, delivered, removed>>

\* After the dependencies: valid_events is extended by provided_events when
\* neither is None, and pluggable.append_plugin(self).
AppendPlugin ==
    /\ stack # <<>>
    /\ Top.kind = "attach_to" /\ Top.pc = "deps"
    /\ Top.it > Len(Dependencies(insts[Top.plugin].type))
    /\ LET o == Fields(Target)
           provided == ProvidedEvents(insts[Top.plugin].type)
       IN Assign(Target,
                 [o EXCEPT !.valid_events = ExtendValidEvents(@, provided),
                           !.plugins = Append(@, Top.plugin)])
    /\ attach_log' = Append(attach_log, LogEntry("append", Top.plugin, 0, 0))
    /\ stack' = SetTop(stack, [Top EXCEPT !.pc = "hooks", !.it = 1])
    /\ UNCHANGED <<insts, event_queue, processing_events, results, enq,
                   delivered, removed, last>>

\* for name in dir(self): handle = pluggable.register_hook(func, *events);
\* self._hook_handles.append(handle).  The RuntimeError of validate_event is
\* not an AttributeError and leaves attach_to.
RegisterPluginHook ==
    /\ stack # <<>>
    /\ Top.kind = "attach_to" /\ Top.pc = "hooks"
    /\ Top.it <= Len(MarkedHooks(insts[Top.plugin].type))
    /\ LET hook == MarkedHooks(insts[Top.plugin].type)[Top.it]
           o == Fields(Target)
           id == o.hook_handle_id_counter
       IN IF ValidateEvent(o.valid_events, hook.events) # "ok"
          THEN /\ Raise("UnknownEvent")
               /\ UNCHANGED <<pluggables, insts, attach_log>>
          ELSE /\ Assign(Target,
                         [o EXCEPT
                            !.hook_handle_id_counter = Advance(id),
                            !.handles = [i \in 0..id |->
                                           IF i = id
                                           THEN [events |-> hook.events, func |-> hook.func]
                                           ELSE o.handles[i]],
                            !.hook_handles = StoreHandle(@, id, hook.events)])
               /\ insts' = [insts EXCEPT
                              ![Top.plugin].hook_handles = Append(@, id),
                              ![Top.plugin].registered = @ \cup {<<Target, id>>}]
               /\ attach_log' = Append(attach_log,
                                       LogEntry("register", Top.plugin, 0, 0))
               /\ stack' = SetTop(stack, [Top EXCEPT !.it = @ + 1])
               /\ UNCHANGED last
    /\ UNCHANGED <<event_queue, processing_events, results, enq, delivered,
                   removed>>

\* attach_to returns, to the attach_to that created the object, to the
\* __init__ that attaches it, or to the external caller.
AttachReturn ==
    /\ stack # <<>>
    /\ Top.kind = "attach_to" /\ Top.pc = "hooks"
    /\ Top.it > Len(MarkedHooks(insts[Top.plugin].type))
    /\ stack' = Pop(stack)
    /\ last' = IF stack' = <<>> THEN [last EXCEPT !.result = "ok"] ELSE last
    /\ UNCHANGED <<pluggables, insts, attach_log, event_queue,
                   processing_events, results, enq, delivered, removed>>

\* Fault variant of RemoveAll: the handles stay in the registry.
RemoveAllSkipped(o, ids, done) ==
    [hh |-> o.hook_handles, result |-> "ok", done |-> done]

\* for handle in self._hook_handles: handle.remove(), on the Pluggable with
\* the fields o; the KeyError of a remove_hook leaves the loop with the
\* removals already made.
RECURSIVE RemoveAll(_, _, _)
RemoveAll(o, ids, done) ==
    IF ids = <<>> THEN [hh |-> o.hook_handles, result |-> "ok", done |-> done]
    ELSE LET r == RemoveHandle(o.hook_handles, Head(ids), o.handles[Head(ids)].events) IN
         IF r.result # "ok" THEN [hh |-> r.hh, result |-> r.result, done |-> done]
         ELSE RemoveAll([o EXCEPT !.hook_handles = r.hh], Tail(ids),
                        done \cup {Head(ids)})

\* plugin.detach() called from outside.
Detach(i) ==
    /\ stack = <<>>
    /\ i \in 1..Len(insts)
    /\ IF insts[i].pluggable = None
       THEN /\ last' = Call("detach", <<>>, i, 0, "AssertionError")
            /\ UNCHANGED <<pluggables, insts, removed>>
       ELSE LET p == TheValue(insts[i].pluggable)
                o == Fields(p)
                r == RemoveAll(o, insts[i].hook_handles, {})
            IN /\ Assign(p, [o EXCEPT !.hook_handles = r.hh])
               /\ removed' = IF p = "self" THEN removed \cup r.done ELSE removed
               /\ insts' = IF r.result = "ok"
                           THEN [insts EXCEPT ![i].pluggable = None,
                                              ![i].hook_handles = <<>>]
                           ELSE insts
               /\ last' = Call("detach", <<>>, i, 0, r.result)
    /\ UNCHANGED <<attach_log, event_queue, processing_events, results,
                   stack, enq, delivered>>

----------------------------------------------------------------------------
(* Specification *)

Init ==
    /\ valid_events \in {None, Some(RestrictedEvents)}
    /\ hook_handles = [e \in Events |-> <<>>]
    /\ handles = <<>>
    /\ hook_handle_id_counter = 0
    /\ event_queue = <<>>
    /\ processing_events = FALSE
    /\ results = <<>>
    /\ stack = <<>>
    /\ enq = <<>>
    /\ delivered = <<>>
    /\ removed = {}
    /\ plugins = <<>>
    /\ insts = <<>>
    /\ other = NewPluggable
    /\ attach_log = <<>>
    /\ last = NoCall

\* The hooks an external caller registers, as <<func, events>>, in each
\* specification: hooks that dispatch, raise or do nothing ...
DispatchHooks ==
    {<<"disp_B", <<"A">>>>, <<"disp_C", <<"B">>>>, <<"disp_A", <<"C">>>>,
     <<"noop", <<"A">>>>, <<"noop", <<"A", "C">>>>,
     <<"raise", <<"A">>>>, <<"raise", <<"B">>>>}

\* ... and hooks on none, one or several event names, of which "C" is
\* outside RestrictedEvents.
RegistryHooks ==
    {<<"noop", events>> : events \in {<<>>, <<"A">>, <<"C">>, <<"A", "C">>,
                                      <<"C", "A">>, <<"A", "A">>, <<"A", "C", "A">>}}
    \cup {<<"raise", <<"C">>>>}

NextDispatch ==
    \/ \E hook \in DispatchHooks :
          hook_handle_id_counter < MaxHandles /\ RegisterHook(hook[1], hook[2])
    \/ \E event \in Events : Len(enq) < MaxRecords /\ Dispatch(event)
    \/ LoopStep
    \/ ForStep
    \/ HookDispatch
    \/ HookRaise
    \/ HookReturn

SpecDispatch == Init /\ [][NextDispatch]_vars

\* Hooks on "A" that return a dict, or nothing.
ReturningHooks ==
    {<<func, <<"A">>>> : func \in {"ret_k1_1", "ret_k1_2", "ret_k2_2", "noop"}}

NextReturns ==
    \/ \E hook \in ReturningHooks :
          hook_handle_id_counter < MaxHandles /\ RegisterHook(hook[1], hook[2])
    \/ \E id \in DOMAIN handles : RemoveHook(id)
    \/ Len(enq) < MaxDispatched /\ Dispatch("A")
    \/ LoopStep
    \/ ForStep
    \/ HookReturn

SpecReturns == Init /\ [][NextReturns]_vars

NextPlugins ==
    \/ \E type \in PluginTypes : Len(insts) < MaxPlugins /\ NewPlugin(type)
    \/ \E i \in 1..Len(insts) :
          hook_handle_id_counter < MaxPluginHandles /\ AttachTo(i, "self")
    \/ \E i \in 1..Len(insts) : Detach(i)
    \/ ResolveDependency
    \/ AppendPlugin
    \/ RegisterPluginHook
    \/ AttachReturn

SpecPlugins == Init /\ [][NextPlugins]_vars

\* The lists Pluggable is constructed with: plugin classes, and objects the
\* caller has constructed (the same object may be given twice).
ConstructArgs ==
    LET arg == {ClassArg(type) : type \in PluginTypes \ {"PluginE"}}
               \cup {ObjectArg(i) : i \in 1..Len(insts)}
    IN UNION {[1..n -> arg] : n \in 0..MaxArgs}

NextConstruct ==
    \/ \E type \in {"PluginA", "PluginB"} :
          last = NoCall /\ Len(insts) < MaxObjects /\ NewPlugin(type)
    \/ \E args \in ConstructArgs : Construct(args)
    \/ ConstructStep
    \/ ResolveDependency
    \/ AppendPlugin
    \/ RegisterPluginHook
    \/ AttachReturn

SpecConstruct == Init /\ [][NextConstruct]_vars

\* Plugins are attached and detached, and events dispatched in between.
NextDetach ==
    \/ \E type \in {"PluginA", "PluginB"} : Len(insts) < MaxPlugins /\ NewPlugin(type)
    \/ \E i \in 1..Len(insts) :
          hook_handle_id_counter < MaxPluginHandles /\ AttachTo(i, "self")
    \/ \E i \in 1..Len(insts) : Detach(i)
    \/ ResolveDependency
    \/ AppendPlugin
    \/ RegisterPluginHook
    \/ AttachReturn
    \/ \E event \in {"A", "B"} : Len(enq) < MaxDispatched /\ Dispatch(event)
    \/ LoopStep
    \/ ForStep
    \/ HookReturn

\* The Pluggable is of the base class, whose valid_events is None.
InitUnrestricted == Init /\ valid_events = None

SpecDetach == InitUnrestricted /\ [][NextDetach]_vars

\* Plugins are attached to one of two Pluggables, detached, and attached
\* again.
NextReattach ==
    \/ \E type \in {"PluginA", "PluginB"} : Len(insts) < MaxObjects /\ NewPlugin(type)
    \/ \E i \in 1..Len(insts), p \in Pluggables :
          Fields(p).hook_handle_id_counter <= MaxObjects /\ AttachTo(i, p)
    \/ \E i \in 1..Len(insts) : Detach(i)
    \/ ResolveDependency
    \/ AppendPlugin
    \/ RegisterPluginHook
    \/ AttachReturn

SpecReattach == Init /\ [][NextReattach]_vars

\* Handles are issued to external callers and to plugins, on either
\* Pluggable, and removed again.
NextIds ==
    \/ \E event \in {"A", "C"} :
          hook_handle_id_counter < MaxRegistered /\ RegisterHook("noop", <<event>>)
    \/ \E id \in DOMAIN handles \ removed : RemoveHook(id)
    \/ Len(insts) < MaxObjects /\ NewPlugin("PluginD")
    \/ \E i \in 1..Len(insts), p \in Pluggables :
          Fields(p).hook_handle_id_counter <= MaxObjects /\ AttachTo(i, p)
    \/ \E i \in 1..Len(insts) : Detach(i)
    \/ ResolveDependency
    \/ AppendPlugin
    \/ RegisterPluginHook
    \/ AttachReturn

SpecIds == Init /\ [][NextIds]_vars

\* The steps of a running attach_to.
AttachSteps ==
    ResolveDependency \/ AppendPlugin \/ RegisterPluginHook \/ AttachReturn

\* Plugins of classes with and without a dependency cycle are attached.  A
\* call that has begun runs on: the program is single threaded and each
\* statement of attach_to completes.
NextCycles ==
    \/ \E type \in CyclicTypes \cup {"PluginB", "PluginX2"} :
          Len(insts) < MaxPlugins /\ NewPlugin(type)
    \/ \E i \in 1..Len(insts) :
          hook_handle_id_counter < MaxPluginHandles /\ AttachTo(i, "self")
    \/ ResolveDependency
    \/ AppendPlugin
    \/ RegisterPluginHook
    \/ AttachReturn

SpecCycles == Init /\ [][NextCycles]_vars /\ WF_vars(AttachSteps)

\* Hooks on "A" that change the registry while they run: one registers a
\* further hook for "A", one for "B", and one removes its own handle.
MutatingHooks ==
    {<<func, <<"A">>>> : func \in {"noop", "reg_A", "reg_B", "remove_self"}}

NextMutate ==
    \/ \E hook \in MutatingHooks :
          hook_handle_id_counter < MaxMutations /\ RegisterHook(hook[1], hook[2])
    \/ \E event \in {"A", "B"} : Len(enq) < MaxDeliveries /\ Dispatch(event)
    \/ LoopStep
    \/ ForStep
    \/ HookRegister
    \/ HookRemove
    \/ HookReturn

SpecMutate == InitUnrestricted /\ [][NextMutate]_vars

\* Hooks whose event list names an event more than once, next to hooks on
\* one and on two different events; "C" is outside RestrictedEvents.
RepeatedHooks ==
    {<<"noop", events>> : events \in {<<"A">>, <<"A", "C">>, <<"C", "A">>,
                                      <<"A", "A">>, <<"A", "A", "C">>}}

NextRepeated ==
    \/ \E hook \in RepeatedHooks :
          hook_handle_id_counter < MaxRepeated /\ RegisterHook(hook[1], hook[2])
    \/ \E id \in DOMAIN handles : RemoveHook(id)

SpecRepeated == Init /\ [][NextRepeated]_vars

Next ==
    \/ \E hook \in RegistryHooks :
          hook_handle_id_counter < MaxRegistered /\ RegisterHook(hook[1], hook[2])
    \/ \E id \in DOMAIN handles : RemoveHook(id)
    \/ \E event \in {"A", "C"} : Len(enq) < MaxDispatched /\ Dispatch(event)
    \/ LoopStep
    \/ ForStep
    \/ HookRaise
    \/ HookReturn

Spec == Init /\ [][Next]_vars

----------------------------------------------------------------------------
(* Properties *)

\* The handles invoked, in order, for the record rid.
InvokedFor(rid) ==
    LET IsFor(d) == d.rid = rid
        sel == SelectSeq(delivered, IsFor)
    IN [i \in 1..Len(sel) |-> sel[i].h]

\* The hook frames on the stack: the hooks that are executing.
HooksExecuting == {i \in 1..Len(stack) : stack[i].kind = "hook"}

\* An external dispatch that owned the loop has returned normally.
LoopOwnerReturned ==
    last.op = "dispatch" /\ last.result = "ok" /\ last.rv > 0 /\ ~processing_events

\* The hook h does not return: its body raises, or dispatches a name that
\* validate_event rejects.
HookFails(h) ==
    \/ FuncRaises(handles[h].func)
    \/ /\ FuncDispatches(handles[h].func) # None
       /\ validate_event(<<TheValue(FuncDispatches(handles[h].func))>>) # "ok"

\* The hook invoked last is still about to run its body.
LastHookPending ==
    /\ stack # <<>>
    /\ Top.kind = "hook" /\ Top.pc = "body"

\* C1: reentrant dispatch is deferred and FIFO.  At most one hook of the
\* dispatcher executes at any time; the hooks of a record are invoked only
\* after every record enqueued before it in the cascade has had all the hooks
\* registered for its event invoked, records being taken in the order they
\* were enqueued; and when the call that owns the loop returns, every record
\* enqueued from inside hooks has been delivered and the queue is empty.
C1_ReentrantDispatchDeferredFifo ==
    /\ Cardinality(HooksExecuting) <= 1
    /\ last.op = "dispatch" =>
          \A i \in 1..Len(delivered) :
             /\ i > 1 => delivered[i - 1].rid <= delivered[i].rid
             /\ \A r \in last.rv..(delivered[i].rid - 1) :
                   InvokedFor(r) = hook_handles[enq[r]]
    /\ LoopOwnerReturned =>
          /\ event_queue = <<>>
          /\ \A r \in last.rv..Len(enq) : InvokedFor(r) = hook_handles[enq[r]]

\* C1 witness: the chain A -> B -> C has been delivered by one external
\* dispatch of A, each event from inside a hook of the one before.
C1_Witness ==
    /\ LoopOwnerReturned
    /\ last.rv = 1 /\ enq = <<"A", "B", "C">>
    /\ \A r \in 1..3 : InvokedFor(r) # <<>>

\* C2: dispatch(E) invokes exactly the handles currently registered for E,
\* once each, in the order in which they were registered for E.
C2_DispatchInvokesRegisteredInOrder ==
    (last.op = "dispatch" /\ last.result = "ok") =>
        InvokedFor(last.rv) = hook_handles[last.ev[1]]

\* C3: a hook that raises leaves the dispatcher usable.  After the exception
\* has left dispatch the reentrancy flag is cleared, and an external dispatch
\* that returns has invoked the hooks of its event.
C3_FlagClearedAfterHookRaised ==
    /\ (last.op = "dispatch" /\ last.result = "TrainingInterrupt") =>
          ~processing_events
    /\ (last.op = "dispatch" /\ last.result = "ok") =>
          \A h \in Range(hook_handles[last.ev[1]]) :
             \E i \in 1..Len(delivered) : delivered[i].h = h

\* C4: the dispatcher never catches the exception of a hook.  Once a hook
\* that does not return has run, the external dispatch call has ended with
\* that exception, and no hook is invoked after it: neither a later hook of
\* the same event nor a hook of an event still in the queue.
C4_HookExceptionStopsDraining ==
    /\ \A i \in 1..Len(delivered) : HookFails(delivered[i].h) => i = Len(delivered)
    /\ (/\ last.op = "dispatch"
        /\ delivered # <<>>
        /\ HookFails(delivered[Len(delivered)].h)
        /\ ~LastHookPending)
       => /\ stack = <<>>
          /\ last.result \in {"TrainingInterrupt", "UnknownEvent"}
    /\ (last.op = "dispatch" /\ last.result = "TrainingInterrupt")
       => /\ delivered # <<>>
          /\ FuncRaises(handles[delivered[Len(delivered)].h].func)

\* C4 witness: a hook delivered for a deferred nested event has raised while
\* another event was still in the queue, and the external call has ended
\* with TrainingInterrupt.
C4_Witness ==
    /\ last.op = "dispatch" /\ last.result = "TrainingInterrupt"
    /\ stack = <<>>
    /\ event_queue # <<>>
    /\ delivered # <<>>
    /\ delivered[Len(delivered)].rid # last.rv

\* The merge, in registration order, of what the callbacks of a bucket return.
RECURSIVE MergedReturns(_)
MergedReturns(bucket) ==
    IF bucket = <<>> THEN {}
    ELSE LET front == MergedReturns(SubSeq(bucket, 1, Len(bucket) - 1))
             r == FuncReturns(handles[bucket[Len(bucket)]].func)
         IN IF r = None THEN front ELSE DictUpdate(front, TheValue(r))

\* C5: the mapping returned by an external dispatch(E) is the merge, in
\* registration order, of the mappings returned by the callbacks registered
\* for E.
C5_ReturnValuesMerged ==
    (last.op = "dispatch" /\ last.result = "ok") =>
        results[last.rv] = MergedReturns(hook_handles[last.ev[1]])

\* C6: with valid_events restricted, dispatch of a name outside it fails with
\* the unknown-event error, no record of that name is ever enqueued and no
\* hook is invoked; with valid_events None no dispatch, external or nested,
\* fails with the unknown-event error, and the record is enqueued.
C6_DispatchValidatesEvent ==
    /\ valid_events # None =>
          /\ \A r \in 1..Len(enq) : enq[r] \in TheValue(valid_events)
          /\ (last.op = "dispatch" /\ last.ev[1] \notin TheValue(valid_events))
             => /\ last.result = "UnknownEvent"
                /\ last.rv = 0
                /\ delivered = <<>>
                /\ stack = <<>>
    /\ valid_events = None =>
          /\ last.result # "UnknownEvent"
          /\ last.op = "dispatch" => (last.rv > 0 /\ enq[last.rv] = last.ev[1])

\* C6 witness: a dispatch of "C", for which a handle is registered, has been
\* refused because valid_events does not hold "C".
C6_Witness ==
    /\ last.op = "dispatch" /\ last.ev = <<"C">>
    /\ last.result = "UnknownEvent"
    /\ hook_handles["C"] # <<>>

\* C7: register_hook on a dispatcher with restricted valid_events fails with
\* the unknown-event error, leaving the registry unchanged, if any of the
\* given names is absent from valid_events.
C7_EveryEventNameValidated ==
    (/\ last.op = "register_hook"
     /\ valid_events # None
     /\ \E i \in 1..Len(last.ev) : last.ev[i] \notin TheValue(valid_events))
    => /\ last.result = "UnknownEvent"
       /\ hook_handles = last.pre

C9_SecondRemoveFails ==
    (last.op = "remove_hook" /\ last.again) =>
        /\ last.result = "KeyError"
        /\ hook_handles = last.pre

\* C9 amended: for every handle registered for at least one event name, a
\* second remove_hook after a successful first one fails with KeyError and
\* leaves the registry unchanged.  (A handle registered for no event name is
\* in no bucket, and every remove_hook of it returns normally.)
C9_SecondRemoveOfRegisteredFails ==
    (last.op = "remove_hook" /\ last.again /\ last.ev # <<>>) =>
        /\ last.result = "KeyError"
        /\ hook_handles = last.pre

\* C9 witness: a handle registered for "A" and "C" was removed, and its
\* second removal has failed.
C9_Witness ==
    /\ last.op = "remove_hook" /\ last.again
    /\ last.ev = <<"A", "C">>
    /\ last.result = "KeyError"
    /\ last.h \in removed

\* The plugins appended before position p of the log: those in
\* pluggable.plugins when attach_to was called and those appended since.
AppendedBefore(p) ==
    Range(last.pre_plugins) \cup
    {attach_log[q].plugin : q \in {q \in 1..(p - 1) : attach_log[q].what = "append"}}

\* The hooks of plugin j registered before position p of the log.
RegisteredBefore(j, p) ==
    Cardinality({q \in 1..(p - 1) : /\ attach_log[q].what = "register"
                                     /\ attach_log[q].plugin = j})

CreatedInCall ==
    {attach_log[q].plugin : q \in {q \in 1..Len(attach_log) : attach_log[q].what = "create"}}

\* C10: dependency resolution on attach.  A dependency object is created only
\* when no type-compatible object is in pluggable.plugins, and for the
\* dependencies of one plugin in declared order; when a plugin is appended,
\* each of its dependency types has a type-compatible object appended before
\* it, and one created for it has all its hooks registered already; and a
\* hook of a plugin is registered only after the plugin was appended.
C10_DependenciesAttachedFirst ==
    last.op = "attach_to" =>
        \A p \in 1..Len(attach_log) :
            LET e == attach_log[p]
                type == insts[e.plugin].type
            IN /\ e.what = "create" =>
                     /\ \A k \in AppendedBefore(p) : ~IsInstance(insts[k].type, type)
                     /\ type = Dependencies(insts[e.by].type)[e.n]
                     /\ \A q \in 1..(p - 1) :
                           (attach_log[q].what = "create" /\ attach_log[q].by = e.by)
                           => attach_log[q].n < e.n
               /\ e.what = "append" =>
                     \A n \in 1..Len(Dependencies(type)) :
                        \E k \in AppendedBefore(p) :
                           /\ IsInstance(insts[k].type, Dependencies(type)[n])
                           /\ k \in CreatedInCall =>
                                 RegisteredBefore(k, p) = Len(MarkedHooks(insts[k].type))
               /\ e.what = "register" =>
                     \E q \in 1..(p - 1) : /\ attach_log[q].what = "append"
                                           /\ attach_log[q].plugin = e.plugin

\* C10 witness: a PluginC was attached to a Pluggable without plugins:
\* PluginB was created for it, PluginA for PluginB, and no second PluginA
\* for the PluginA dependency of PluginC.
C10_Witness ==
    /\ last.op = "attach_to" /\ last.result = "ok" /\ stack = <<>>
    /\ last.pre_plugins = <<>>
    /\ insts[last.h].type = "PluginC"
    /\ Cardinality(CreatedInCall) = 2
    /\ [k \in 1..Len(plugins) |-> insts[plugins[k]].type]
          = <<"PluginA", "PluginB", "PluginC">>

\* The classes of the objects in a list of plugins, in order.
TypesOf(plugs) == [k \in 1..Len(plugs) |-> insts[plugs[k]].type]

\* Every plugin of the list is preceded in it by a type-compatible object of
\* each of its dependency types.
DependenciesPrecede(plugs) ==
    \A k \in 1..Len(plugs) :
       \A n \in 1..Len(Dependencies(insts[plugs[k]].type)) :
          \E j \in 1..(k - 1) :
             IsInstance(insts[plugs[j]].type, Dependencies(insts[plugs[k]].type)[n])

\* C11: after Pluggable(plugins=[...]) has returned, every plugin in plugins
\* is preceded in the list by a type-compatible object of each of its
\* dependency types, and every plugin given is in the list; constructed from
\* [PluginA, PluginB] the list is exactly one PluginA followed by one PluginB.
C11_ConstructedInDependencyOrder ==
    (last.op = "__init__" /\ last.result = "ok") =>
        /\ DependenciesPrecede(plugins)
        /\ Len(plugins) >= Len(last.ev)
        /\ \A n \in 1..Len(last.ev) :
              \E k \in 1..Len(plugins) :
                 IF last.ev[n].isclass
                 THEN insts[plugins[k]].type = last.ev[n].cls
                 ELSE plugins[k] = last.ev[n].obj
        /\ last.ev = <<ClassArg("PluginA"), ClassArg("PluginB")>> =>
              TypesOf(plugins) = <<"PluginA", "PluginB">>

\* C11 witness: Pluggable(plugins=[PluginA, PluginB]) has returned.
C11_Witness ==
    /\ last.op = "__init__" /\ last.result = "ok"
    /\ last.ev = <<ClassArg("PluginA"), ClassArg("PluginB")>>
    /\ Len(plugins) = 2

\* The handles the Pluggable p has issued to the plugin i.
RegisteredOn(i, p) == {pr[2] : pr \in {pr \in insts[i].registered : pr[1] = p}}

\* The bucket without the handles of ids.
Without(bucket, ids) == LET Keep(x) == x \notin ids IN SelectSeq(bucket, Keep)

\* C12: after detach() has returned, no event bucket holds a handle the
\* plugin registered, its dispatcher reference is None and its handle list
\* empty; a dispatch after it invokes none of the plugin's hooks; and the
\* detach has left every bucket as it was but for the plugin's own handles.
C12_DetachRemovesOwnHandles ==
    /\ \A i \in 1..Len(insts) :
          insts[i].pluggable = None =>
             /\ insts[i].hook_handles = <<>>
             /\ \A e \in Events :
                   Range(hook_handles[e]) \cap RegisteredOn(i, "self") = {}
             /\ last.op = "dispatch" =>
                   \A d \in 1..Len(delivered) :
                      delivered[d].h \notin RegisteredOn(i, "self")
    /\ (last.op = "detach" /\ last.result = "ok") =>
          /\ insts[last.h].pluggable = None
          /\ \A e \in Events :
                hook_handles[e] = Without(last.pre[e], RegisteredOn(last.h, "self"))

\* C12 witness: a dispatch of "A" has invoked the hook of an attached plugin
\* after another plugin with a hook on "A" was detached.
C12_Witness ==
    /\ last.op = "dispatch" /\ last.ev = <<"A">> /\ last.result = "ok"
    /\ delivered # <<>>
    /\ \E i \in 1..Len(insts) :
          /\ insts[i].pluggable = None
          /\ \E id \in RegisteredOn(i, "self") : "A" \in Range(handles[id].events)

\* The handles of the plugin i that are in a bucket of the Pluggable p.
HooksIn(i, p) ==
    {id \in RegisteredOn(i, p) :
        \E e \in Events : id \in Range(Fields(p).hook_handles[e])}

\* C13: a plugin is detached (no dispatcher reference, no handles) or
\* attached to one Pluggable.  Its hooks are in the registry of no Pluggable
\* but the one it is attached to; attach_to on an attached plugin and detach
\* on a detached one fail and change neither the plugin nor a Pluggable; and
\* attach_to on a detached plugin, whether it was attached before or not and
\* to whichever Pluggable, goes ahead and registers every marked hook of the
\* plugin with that Pluggable.
C13_PluginLifecycle ==
    /\ [](\A i \in 1..Len(insts) :
            /\ Cardinality(insts[i].pluggable) <= 1
            /\ insts[i].pluggable = None => insts[i].hook_handles = <<>>
            /\ \A p \in Pluggables :
                  insts[i].pluggable # Some(p) => HooksIn(i, p) = {})
    /\ []((last.op = "attach_to" /\ last.result = "ok") =>
            /\ insts[last.h].pluggable # None
            /\ Len(insts[last.h].hook_handles) = Len(MarkedHooks(insts[last.h].type))
            /\ Range(insts[last.h].hook_handles)
                  \subseteq HooksIn(last.h, TheValue(insts[last.h].pluggable)))
    /\ [][(stack = <<>> /\ last' # last) =>
            /\ (last'.op = "attach_to" /\ insts[last'.h].pluggable # None) =>
                  (last'.result = "AssertionError" /\ UNCHANGED <<pluggables, insts>>)
            /\ (last'.op = "attach_to" /\ insts[last'.h].pluggable = None) =>
                  last'.result = "running"
            /\ (last'.op = "detach" /\ insts[last'.h].pluggable = None) =>
                  (last'.result = "AssertionError" /\ UNCHANGED <<pluggables, insts>>)
            /\ last'.result = "AssertionError" =>
                  IF last'.op = "detach" THEN insts[last'.h].pluggable = None
                                         ELSE insts[last'.h].pluggable # None]_vars

\* C13 witness: a plugin that was attached to one Pluggable and detached is
\* now attached to the other one, with its hooks in the registry there.
C13_Witness ==
    /\ last.op = "attach_to" /\ last.result = "ok"
    /\ insts[last.h].pluggable = Some("other")
    /\ RegisteredOn(last.h, "self") # {}
    /\ HooksIn(last.h, "other") # {}
    /\ HooksIn(last.h, "self") = {}

\* The dispatch calls on the stack that run the drain loop.
LoopOwners == {i \in 1..Len(stack) : stack[i].kind = "dispatch"}

\* C14: quiescence after a normal dispatch.  At most one dispatch call runs
\* the drain loop at any time, and the flag is set while it does; and when
\* the call that owns the loop returns normally, the queue is empty, the flag
\* is False, and every record enqueued since the call began, its own and
\* those enqueued from inside hooks, has had each hook registered for its
\* event invoked exactly once.
C14_QuiescentAfterDispatch ==
    /\ [](/\ Cardinality(LoopOwners) <= 1
          /\ LoopOwners # {} => processing_events)
    /\ [][(LoopOwners # {} /\ stack' = <<>> /\ last'.result = "ok") =>
            /\ event_queue' = <<>>
            /\ ~processing_events'
            /\ \A r \in last.rv..Len(enq) :
                  /\ InvokedFor(r)' = hook_handles'[enq'[r]]
                  /\ Cardinality(Range(InvokedFor(r)')) = Len(InvokedFor(r)')]_vars

\* C14 witness: the second external dispatch has returned after a cascade of
\* its own record and one enqueued from inside a hook, each with a hook.
C14_Witness ==
    /\ LoopOwnerReturned
    /\ last.rv > 1 /\ Len(enq) > last.rv
    /\ \A r \in last.rv..Len(enq) : InvokedFor(r) # <<>>

\* C15: every plugin in pluggable.plugins is attached to the Pluggable, its
\* dispatcher reference being that Pluggable; and when an attach_to has
\* returned, each dependency type of its plugin has a type-compatible object
\* in plugins that is attached.
C15_PluginsAreAttached ==
    /\ \A k \in 1..Len(plugins) : insts[plugins[k]].pluggable = Some("self")
    /\ (last.op = "attach_to" /\ last.result = "ok") =>
          \A n \in 1..Len(Dependencies(insts[last.h].type)) :
             \E k \in 1..Len(plugins) :
                /\ IsInstance(insts[plugins[k]].type, Dependencies(insts[last.h].type)[n])
                /\ insts[plugins[k]].pluggable = Some("self")

\* The number of times the handle h was invoked for the record rid.
TimesInvoked(h, rid) ==
    Cardinality({d \in 1..Len(delivered) : delivered[d].h = h /\ delivered[d].rid = rid})

\* C16: registry invariant.  Each handle in the bucket of an event lists the
\* event among its own events and is in the bucket once, under its own id; a
\* handle registered for several events is in the bucket of each of them, and
\* a dispatch of one of them that returns has invoked it once.
C16_BucketsHoldHandlesOfTheirEvent ==
    /\ \A e \in Events :
          \A k \in 1..Len(hook_handles[e]) :
             /\ hook_handles[e][k] \in DOMAIN handles
             /\ e \in Range(handles[hook_handles[e][k]].events)
             /\ \A j \in 1..Len(hook_handles[e]) :
                   hook_handles[e][j] = hook_handles[e][k] => j = k
    /\ (last.op = "register_hook" /\ last.result = "ok") =>
          \A e \in Range(last.ev) : last.h \in Range(hook_handles[e])
    /\ (last.op = "dispatch" /\ last.result = "ok") =>
          \A h \in Range(hook_handles[last.ev[1]]) : TimesInvoked(h, last.rv) = 1

\* C17: handle ids are unique and strictly increasing per Pluggable.  In
\* every step, on each Pluggable, the ids issued so far are those below the
\* counter; a handle that has an id keeps it and no other handle is given it,
\* whether the handle is still registered or not; an id issued in the step
\* is greater than every id issued before; and the counter moves on by the
\* number of handles issued, so that a register_hook that fails, from outside
\* or from attach_to, consumes no id.
C17_HandleIdsIncrease ==
    [][/\ \A p \in Pluggables :
            LET was == Fields(p)
                now == Fields(p)'
                issued == DOMAIN now.handles \ DOMAIN was.handles
            IN /\ DOMAIN now.handles = 0..(now.hook_handle_id_counter - 1)
               /\ \A id \in DOMAIN was.handles :
                     id \in DOMAIN now.handles /\ now.handles[id] = was.handles[id]
               /\ \A id \in issued : \A old \in DOMAIN was.handles : id > old
               /\ now.hook_handle_id_counter
                     = was.hook_handle_id_counter + Cardinality(issued)
       /\ (stack = <<>> /\ last' # last /\ last'.op = "register_hook") =>
            IF last'.result = "ok"
            THEN /\ last'.h \notin DOMAIN handles
                 /\ last'.h \in DOMAIN handles'
                 /\ \A old \in DOMAIN handles : last'.h > old
            ELSE UNCHANGED <<handles, hook_handle_id_counter>>]_vars

\* C17 witness: register_hook has returned a handle after a plugin, whose
\* handle had a lower id, was detached.
C17_Witness ==
    /\ last.op = "register_hook" /\ last.result = "ok"
    /\ last.h \notin removed
    /\ \E i \in 1..Len(insts) :
          \E id \in RegisteredOn(i, "self") \cap removed : id < last.h

\* The plugin whose hooks the attach_to was registering when it last went on
\* or failed, the one appended last, and the hook that was next.
NextHook ==
    LET appends == {q \in 1..Len(attach_log) : attach_log[q].what = "append"}
        q == CHOOSE q \in appends : \A r \in appends : r <= q
        j == attach_log[q].plugin
    IN [plugin |-> j,
        hook |-> MarkedHooks(insts[j].type)[RegisteredBefore(j, Len(attach_log) + 1) + 1]]

\* C18: valid_events on attach.  valid_events changes only where attach_to
\* appends its plugin, and there it becomes the union of its old value and
\* the provided_events of the plugin if neither is None and stays as it is
\* otherwise: None stays None, and no name is ever taken out.  The hooks of
\* a plugin are registered after that, so that an attach_to never fails with
\* the unknown-event error on an event its plugin provides.
C18_ValidEventsExtendedBeforeHooks ==
    /\ [][/\ (valid_events = None) <=> (valid_events' = None)
          /\ valid_events # None =>
                TheValue(valid_events) \subseteq TheValue(valid_events')
          /\ plugins' = plugins => valid_events' = valid_events
          /\ plugins' # plugins =>
                LET provided == ProvidedEvents(insts[plugins'[Len(plugins')]].type)
                IN valid_events' =
                      IF valid_events # None /\ provided # None
                      THEN Some(TheValue(valid_events) \cup TheValue(provided))
                      ELSE valid_events
          /\ (stack # <<>> /\ handles' # handles) =>
                /\ Top.plugin \in Range(plugins)
                /\ (valid_events # None /\ ProvidedEvents(insts[Top.plugin].type) # None)
                   => TheValue(ProvidedEvents(insts[Top.plugin].type))
                         \subseteq TheValue(valid_events)]_vars
    /\ []((last.op = "attach_to" /\ last.result = "UnknownEvent") =>
            LET provided == ProvidedEvents(insts[NextHook.plugin].type)
            IN \A n \in 1..Len(NextHook.hook.events) :
                  provided # None => NextHook.hook.events[n] \notin TheValue(provided))

\* C18 witness: a PluginB, which provides "C" and has a hook on "C", has been
\* attached to a Pluggable whose valid_events was {"A", "B"}.
C18_Witness ==
    /\ last.op = "attach_to" /\ last.result = "ok"
    /\ insts[last.h].type = "PluginB"
    /\ last.pre_valid = Some(RestrictedEvents)
    /\ valid_events = Some(RestrictedEvents \cup {"C"})
    /\ \E id \in Range(insts[last.h].hook_handles) : id \in Range(hook_handles["C"])

\* C20: attach is all-or-nothing on failure.  After an attach_to has failed
\* with the unknown-event error, plugins, the registry and valid_events are
\* as they were before the call, and the plugin is detached.
C20_FailedAttachLeavesNothing ==
    (last.op = "attach_to" /\ last.result = "UnknownEvent") =>
        /\ plugins = last.pre_plugins
        /\ hook_handles = last.pre
        /\ valid_events = last.pre_valid
        /\ insts[last.h].pluggable = None
        /\ insts[last.h].hook_handles = <<>>

\* The classes on the dependency cycle of a class.
CycleOf(type) ==
    CASE type \in {"PluginX", "PluginY"} -> {"PluginX", "PluginY"}
      [] type = "PluginS" -> {"PluginS"}
      [] OTHER -> {}

\* When the last attach_to began, plugins held an object type-compatible
\* with a class on the dependency cycle of the plugin's class.
CycleBroken ==
    \E k \in 1..Len(last.pre_plugins) :
       \E type \in CycleOf(insts[last.h].type) :
          IsInstance(insts[last.pre_plugins[k]].type, type)

\* Every entry of the log is the creation of a dependency object by the
\* object created before it, the first by the plugin of the call.
OnlyCreates ==
    \A q \in 1..Len(attach_log) :
       /\ attach_log[q].what = "create"
       /\ attach_log[q].by = (IF q = 1 THEN last.h ELSE attach_log[q - 1].plugin)
       /\ \A r \in 1..(q - 1) : attach_log[r].plugin # attach_log[q].plugin

\* C19 as claimed: attach_to ends for a plugin of a class that is on no
\* dependency cycle; for a plugin of a class on a cycle it never ends,
\* creating a fresh dependency object at each level and appending none.
C19_CyclicAttachRecursesForever ==
    /\ (stack # <<>> /\ insts[last.h].type \notin CyclicTypes) ~> (stack = <<>>)
    /\ []((/\ last.op = "attach_to" /\ last.result # "AssertionError"
           /\ insts[last.h].type \in CyclicTypes)
          => /\ last.result = "running"
             /\ plugins = last.pre_plugins
             /\ OnlyCreates)

\* C19 amended: every attach_to ends.  For a plugin of a class on a
\* dependency cycle, attached where plugins holds no object type-compatible
\* with a class on the cycle, it creates a fresh dependency object at each
\* level, appends none, and ends only when the interpreter's recursion limit
\* is reached, with RecursionError; every other attach_to, of a class on no
\* cycle or where such an object is in plugins, ends below the limit.
C19_CyclicAttachEndsAtRecursionLimit ==
    /\ (stack # <<>>) ~> (stack = <<>>)
    /\ []((last.op = "attach_to" /\ last.result # "AssertionError") =>
            IF insts[last.h].type \in CyclicTypes /\ ~CycleBroken
            THEN /\ last.result \in {"running", "RecursionError"}
                 /\ plugins = last.pre_plugins
                 /\ OnlyCreates
                 /\ last.result = "running" => Len(stack) = Len(attach_log) + 1
                 /\ last.result = "RecursionError" =>
                       Len(attach_log) = RecursionLimit - 1
            ELSE /\ last.result \in {"running", "ok"}
                 /\ stack = <<>> => last.h \in Range(plugins))

\* C19 witness: the attach_to of a PluginX, whose class depends on PluginY
\* and PluginY on it, has ended with RecursionError.
C19_Witness ==
    /\ last.op = "attach_to" /\ last.result = "RecursionError"
    /\ insts[last.h].type = "PluginX"
    /\ stack = <<>>
    /\ plugins = <<>>

\* C21: mutating the registry from inside a hook is safe.  A dispatch call
\* never ends with the RuntimeError of the iteration over the bucket, whatever
\* its hooks register or remove; and when the call that owned the loop has
\* returned, every handle that was registered for its event when it began
\* has been invoked for its record exactly once, in registration order.
C21_RegistryMutationInHookIsSafe ==
    (last.op = "dispatch" /\ stack = <<>>) =>
        /\ last.result # "RuntimeError"
        /\ LoopOwnerReturned =>
              LET before == last.pre[last.ev[1]]
                  WasRegistered(h) == h \in Range(before)
              IN SelectSeq(InvokedFor(last.rv), WasRegistered) = before

\* The handle id is in the bucket of the event in the registry hh.
InBucket(hh, id, event) == id \in Range(hh[event])

\* C22: handle registration is all-or-nothing at rest.  After every
\* register_hook and remove_hook call, completed or failed, each handle is
\* in the bucket of every event it names or in none of them; and a
\* remove_hook call on a handle that was registered, in the bucket of each
\* event it names, returns normally, also when the handle names an event
\* more than once.
C22_RegistrationAllOrNothing ==
    /\ \A id \in DOMAIN handles :
          \/ \A event \in Range(handles[id].events) : InBucket(hook_handles, id, event)
          \/ \A event \in Range(handles[id].events) : ~InBucket(hook_handles, id, event)
    /\ (/\ last.op = "remove_hook"
        /\ last.ev # <<>>
        /\ \A event \in Range(last.ev) : InBucket(last.pre, last.h, event))
          => last.result = "ok"

====
